---------------------------- MODULE Spec2Model ----------------------------
(***************************************************************************)
(* Request-approval relay (express router + mongoose model).               *)
(*                                                                         *)
(* The repository holds four successive revisions of the router:           *)
(*   "v1"  src/unnamed/part_000 1-263   with the schema of part_001 4-28    *)
(*   "v2"  src/index.js 25-244          with the schema of part_001 34-59   *)
(*         (src/unnamed/part_000 265-411 repeats it)                       *)
(*   "v3"  src/routes/flow.js 1-288     with the schema of part_001 34-59   *)
(*   "v4"  src/routes/flow.js 289-456   with the schema of part_001 34-59   *)
(* A run of the model is a run of one revision (variable ver).  A request  *)
(* is dispatched to the first registered route that matches it, and every  *)
(* await of a handler is a step at which other requests may interleave.    *)
(***************************************************************************)
EXTENDS Naturals, Sequences, FiniteSets, TLC

(* ------------------------------ bounds -------------------------------- *)
\* number of HTTP requests issued in one run
MaxReqs == 3
\* number of records Submit may create in one run
MaxRecords == 1

(* --------------------------- JavaScript values ------------------------ *)
\* A value is undefined, null or a string of the requests and answers.
Undef == "<undefined>"
Null == "<null>"
\* a string made of whitespace only
Blank == "  "
\* a status written with capitals and surrounding whitespace
Loud == " DECLINED "

IsString(v) == v \notin {Undef, Null}
\* JavaScript truthiness: undefined, null and "" are falsy
Truthy(v) == IsString(v) /\ v # ""
\* String.prototype.trim, on the strings of the model
Trim(v) ==
  CASE v = "  " -> ""
    [] v = " DECLINED " -> "DECLINED"
    [] v = " declined " -> "declined"
    [] OTHER -> v
\* String.prototype.toLowerCase, on the strings of the model
ToLowerCase(v) ==
  CASE v = " DECLINED " -> " declined "
    [] v = "DECLINED" -> "declined"
    [] v = "Bob" -> "bob"
    [] v = "Carol" -> "carol"
    [] OTHER -> v
\* a || b
Or(a, b) == IF Truthy(a) THEN a ELSE b
\* a ?? b
Coalesce(a, b) == IF IsString(a) THEN a ELSE b
\* a?.trim()
OptTrim(v) == IF IsString(v) THEN Trim(v) ELSE Undef

(* ------------------------------ revisions ----------------------------- *)
Versions == {"v1", "v2", "v3", "v4"}

\* enum of the status path, or {} when the schema declares none
StatusEnum(v) ==
  IF v = "v1" THEN {"pending", "approved", "declined"} ELSE {}

\* paths the schema declares; mongoose (strict) drops every other path of a write
SchemaPaths(v) ==
  {"fields", "status", "actor_name", "messageId", "request_timestamp", "createdAt"}

\* mongoose's required validator of a String path: fails on undefined, null, ""
RequiredOk(x) == IsString(x) /\ x # ""

(* ------------------------------ timestamps ---------------------------- *)
\* a requested-at value as a client writes it, and the clock at creation
Asked == "2024-05-01T09:30:00Z"
Now == "2024-06-01T12:00:00.000Z"
\* new Date(x).toISOString(), on the timestamps of the model
ToISOString(x) ==
  CASE x = "2024-05-01T09:30:00Z" -> "2024-05-01T09:30:00.000Z"
    [] OTHER -> x
\* mongoose's cast of a Date path: a string becomes a Date (held here as its
\* ISO form); undefined and null stay as they are
CastDate(x) == IF IsString(x) THEN ToISOString(x) ELSE x

(* ------------------------------- records ------------------------------ *)
\* a variant of NewDoc whose status default is a terminal status
NewDocDecided(fields) ==
  [fields |-> fields, status |-> "approved", actor_name |-> Undef,
   messageId |-> Undef, conversationId |-> Undef, lastError |-> Undef,
   request_timestamp |-> Undef, createdAt |-> Now]

\* the document Request.create stores; status defaults to "pending" and
\* createdAt to the time of creation
NewDoc(fields) ==
  [fields |-> fields, status |-> "pending", actor_name |-> Undef,
   messageId |-> Undef, conversationId |-> Undef, lastError |-> Undef,
   request_timestamp |-> Undef, createdAt |-> Now]

\* a variant of SetPaths for an update without $set, which replaces the
\* document: the required fields are not in the update and are lost
SetPathsReplace(v, doc, upd) ==
  [p \in DOMAIN doc |->
     IF p \in DOMAIN upd /\ p \in SchemaPaths(v) /\ upd[p] # Undef
     THEN upd[p]
     ELSE IF p = "fields" THEN <<"", "", "", "">> ELSE doc[p]]

\* Model.updateOne(filter, {$set: upd}): paths outside the schema and
\* undefined values are dropped from the write; validators do not run
SetPaths(v, doc, upd) ==
  [p \in DOMAIN doc |->
     IF p \in DOMAIN upd /\ p \in SchemaPaths(v) /\ upd[p] # Undef
     THEN upd[p] ELSE doc[p]]

(* ------------------------------- routing ------------------------------ *)
\* the routes of a revision in registration order: <<method, pattern, handler>>
Routes(v) ==
  CASE v = "v1" -> << <<"POST", "/", "submit">>,
                      <<"POST", "/:uuid/forward", "forward">>,
                      <<"POST", "/:uuid/:status", "decideSave">>,
                      <<"POST", "/:uuid/teams-approval", "teamsSave">> >>
    [] v = "v2" -> << <<"POST", "/", "submit">>,
                      <<"POST", "/:uuid/forward", "forward">>,
                      <<"POST", "/:uuid/:status", "decideSave">>,
                      <<"POST", "/:uuid/teams-approval", "teamsSave">> >>
    [] v = "v3" -> << <<"POST", "/", "submit">>,
                      <<"POST", "/:uuid/:status", "decideCas">>,
                      <<"GET", "/:uuid/status", "getStatus">>,
                      <<"POST", "/:uuid/teams-approval", "teamsUpdate">> >>
    [] v = "v4" -> << <<"POST", "/", "submit">>,
                      <<"GET", "/:uuid/status", "getStatus">>,
                      <<"POST", "/:uuid/teams-approval", "teamsUpdate">> >>

\* whether a route pattern matches the path /<uuid>/<seg> (seg = "" for "/")
Matches(pattern, seg) ==
  CASE pattern = "/" -> seg = ""
    [] pattern = "/:uuid/:status" -> seg # ""
    [] pattern = "/:uuid/forward" -> seg = "forward"
    [] pattern = "/:uuid/status" -> seg = "status"
    [] pattern = "/:uuid/teams-approval" -> seg = "teams-approval"

\* express hands the request to the first registered route that matches
\* and whose handler answers; "none" when no route matches (express's 404)
Dispatch(v, method, seg) ==
  LET R == Routes(v)
      hits == {i \in 1..Len(R) : R[i][1] = method /\ Matches(R[i][2], seg)}
  IN IF hits = {} THEN "none"
     ELSE R[CHOOSE i \in hits : \A j \in hits : i <= j][3]


(* ------------------------------ the webhook --------------------------- *)
\* what the outbound axios.post can yield: a rejection (network error,
\* timeout, non-2xx status) or a 2xx response with one of these bodies
Outcomes == {"fail", "ok_empty", "ok_activity", "ok_id", "ok_other"}

\* a 2xx response: its body is absent, a string (text) or an object (data: the
\* values at the paths it has), and it may carry the header x-ms-message-id
UrlBody == "https://flow.example/chats/19/messages/m-seg"
NoData == [k \in {} |-> ""]
Response(o) ==
  CASE o = "ok_empty" -> [body |-> "string", text |-> "", data |-> NoData, header |-> Undef]
    [] o = "ok_activity" ->
         [body |-> "object", text |-> "", header |-> Undef,
          data |-> [k \in {"activityId", "conversationId"} |->
                      IF k = "activityId" THEN "m-act" ELSE "c-act"]]
    [] o = "ok_id" -> [body |-> "object", text |-> "", header |-> Undef,
                       data |-> [k \in {"id"} |-> "m-id"]]
    [] o = "ok_other" -> [body |-> "object", text |-> "", header |-> Undef,
                          data |-> [k \in {"ok"} |-> "true"]]

\* body?.a?.b for the path k of the body
Get(x, k) == IF x.body = "object" /\ k \in DOMAIN x.data THEN x.data[k] ELSE Undef

\* body.match(/\/messages?\/([^\/]+)/): the segment after /message(s)/
Match(text) == IF text = UrlBody THEN "m-seg" ELSE Null

\* extractMessageId as src/unnamed/part_000 ("v1") and src/index.js ("v2")
\* declare it
ExtractMessageId(v, x) ==
  IF v = "v1"
  THEN Or(Get(x, "messageId"), Or(Get(x, "id"), Or(Get(x, "outputs.messageId"),
         Or(x.header, Null))))
  ELSE IF x.body = "none" \/ (x.body = "string" /\ x.text = "") THEN Null
  ELSE IF x.body = "string" THEN Match(x.text)
  ELSE Or(Get(x, "id"), Or(Get(x, "messageId"), Or(Get(x, "message.id"),
         Or(Get(x, "outputs.message.id"), Or(Get(x, "outputs.body.id"),
            Or(x.header, Null))))))

\* resp.data?.toString()
ToStringOf(x) ==
  CASE x.body = "none" -> Undef
    [] x.body = "string" -> x.text
    [] x.body = "object" -> "[object Object]"

\* extractMessageId of v1: body.messageId || body.id || ... || null
ExtractMessageIdV1(o) == ExtractMessageId("v1", Response(o))
\* v2: resp.data?.toString()
DataToString(o) == ToStringOf(Response(o))
\* v3, v4: resp.data?.activityId?.toString()
ActivityId(o) == Get(Response(o), "activityId")
\* v3, v4: resp.data?.conversationId?.toString()
ConversationId(o) == Get(Response(o), "conversationId")

(* ------------------------------- requests ----------------------------- *)
\* requestor_fullname, system_name, type, reason of a submission, and the
\* requested-at value it carries (request_timestamp; requested_at in v4)
AllGood == <<"Alice Lee", "Finance", "Access", "Quarterly audit", Asked>>
\* one submission per kind of bad value and per required field, and one
\* without a requested-at value
SubmitInputs ==
  {AllGood, [AllGood EXCEPT ![5] = Undef],
   [AllGood EXCEPT ![1] = Undef], [AllGood EXCEPT ![2] = ""],
   [AllGood EXCEPT ![3] = Blank], [AllGood EXCEPT ![4] = Null]}

\* <<:status segment, body.actor_name>> of POST /:uuid/:status
DirectInputs ==
  {<<"approve", "Bob">>, <<"decline", "Carol">>,
   <<"approved", Undef>>, <<"declined", Blank>>, <<"foo", "Bob">>}
\* <<body.status, body.actor_name>> of POST /:uuid/teams-approval
CallbackInputs ==
  {<<"approved", "Bob">>, <<"declined", "Carol">>,
   <<Loud, Undef>>, <<"approve", Blank>>, <<"approved", Blank>>,
   <<"foo", "Bob">>, <<Undef, "Carol">>}

\* ids a caller may name: those of the store and one that is never created
Ids == 1..(MaxRecords + 1)

\* an answer: HTTP code, the kind of error, and the status, actor_name and
\* messageId of its body (mid is set by GetStatus only)
NoResp == [code |-> 0, err |-> "", status |-> Undef, actor |-> Undef, mid |-> Undef]
Resp(code, err, status, actor) ==
  [code |-> code, err |-> err, status |-> status, actor |-> actor, mid |-> Undef]

\* a request slot: the operation asked for (op), the handler express chose (h),
\* the handler's position (pc), the request's inputs (id, fields, token, given),
\* the handler's locals (tok, actor), the number of decisions on id already
\* answered 200 when the request arrived (since), the webhook calls it made (calls), the
\* body of the last call (payload), how the call settled (outcome), whether a
\* call to the store made for it was rejected (failed), and its answer (resp)
Req0 ==
  [pc |-> "idle", op |-> "none", h |-> "none", id |-> 0, fields |-> << >>,
   token |-> Undef, given |-> Undef, tok |-> Undef, actor |-> Undef,
   since |-> 0, calls |-> 0, payload |-> << >>, outcome |-> "",
   failed |-> FALSE, resp |-> NoResp]
\* the value of extracted before the extraction has run
NotYet == "<not yet>"
\* a slot that has not been used yet, and the slot of an answered request
Idle == [pc |-> "idle"]
Spent == [pc |-> "done"]

\* ver: the revision that runs; store: the Request collection, by request_uuid;
\* reqs: the requests in flight; last: the request answered last, with its
\* answer; wins: per request_uuid, the actor names given by the decisions
\* answered 200 so far, in the order of the answers.
\* flowResp, extracted: a webhook response and the id taken from it, for the
\* specification of the extraction alone (ExtractSpec)
VARIABLES ver, store, reqs, last, wins, flowResp, extracted
vars == <<ver, store, reqs, last, wins, flowResp, extracted>>

Slots == 1..MaxReqs
Known(id) == id \in 1..Len(store)
\* requests arrive one slot after the other
Free(s) == reqs[s].pc = "idle" /\ \A r \in 1..(s - 1) : reqs[r].pc # "idle"
\* the handler of slot s answers: r is the request with its answer
Done(s, r) ==
  /\ reqs' = [reqs EXCEPT ![s] = Spent]
  /\ last' = [r EXCEPT !.pc = "done", !.tok = Undef, !.actor = Undef]
  /\ wins' = IF r.op \in {"direct", "callback"} /\ r.resp.code = 200
             THEN [wins EXCEPT ![r.id] = Append(@, r.given)] ELSE wins
  /\ UNCHANGED <<flowResp, extracted>>
\* the handler of slot s reaches its next await as r
Goes(s, r) ==
  /\ reqs' = [reqs EXCEPT ![s] = r]
  /\ UNCHANGED <<last, wins, flowResp, extracted>>

Init ==
  /\ ver \in Versions
  /\ store = << >>
  /\ reqs = [s \in Slots |-> Idle]
  /\ last = Req0
  /\ wins = [id \in Ids |-> << >>]
  /\ flowResp = Response("ok_empty")
  /\ extracted = NotYet

(* ----------------------------- the payload ---------------------------- *)
\* request_uuid as it is written in a payload
Uuid(id) == ToString(id)

\* toRequestedAt of v1: the explicit request_timestamp, else createdAt
ToRequestedAt(doc) ==
  IF Truthy(doc.request_timestamp) THEN ToISOString(doc.request_timestamp)
  ELSE ToISOString(doc.createdAt)

\* the object a revision builds from the record for the webhook:
\* buildFlowPayloadFromDoc (v1), buildFlowPayload (v2, the later of the two
\* declarations of that name), the inline objects of flow.js (v3, v4)
BuildFlowPayload(v, id, doc) ==
  CASE v = "v1" -> [request_uuid |-> Uuid(id),
                    requestor_fullname |-> doc.fields[1], system_name |-> doc.fields[2],
                    type |-> doc.fields[3], reason |-> doc.fields[4],
                    requested_at |-> ToRequestedAt(doc)]
    [] v = "v2" -> [request_uuid |-> Uuid(id),
                    requestor_fullname |-> doc.fields[1], system_name |-> doc.fields[2],
                    type |-> doc.fields[3], reason |-> doc.fields[4],
                    request_timestamp |-> doc.request_timestamp,
                    source_system |-> "default",
                    messageId |-> Or(doc.messageId, Null)]
    [] v = "v3" -> [id |-> Uuid(id),
                    requester |-> Trim(doc.fields[1]), system |-> Trim(doc.fields[2]),
                    type |-> Trim(doc.fields[3]), reason |-> Trim(doc.fields[4]),
                    timestamp |-> doc.request_timestamp,
                    source |-> "default", version |-> "v1",
                    correlationId |-> Uuid(id)]
    [] v = "v4" -> [request_uuid |-> Uuid(id),
                    requestor_fullname |-> doc.fields[1], system_name |-> doc.fields[2],
                    type |-> doc.fields[3], reason |-> doc.fields[4],
                    requested_at |-> doc.request_timestamp]

\* JSON.stringify of the payload (axios): keys whose value is undefined are left out
Serialize(p) == [k \in {j \in DOMAIN p : p[j] # Undef} |-> p[k]]

\* a variant of Post that issues the call a second time
PostTwice(r, p) ==
  [r EXCEPT !.pc = "posting", !.calls = @ + 2, !.payload = Serialize(p)]

\* await axios.post(FLOW_WEBHOOK_URL, payload, {timeout: 15000}): one call is
\* issued and the handler waits for it to settle
Post(r, p) ==
  [r EXCEPT !.pc = "posting", !.calls = @ + 1, !.payload = Serialize(p)]

(* ------------------------- POST /  (submit) --------------------------- *)
\* the value Request.create is given for request_timestamp
StoredTimestamp(v, ts) ==
  CASE v = "v1" -> IF Truthy(ts) THEN CastDate(ts) ELSE Undef
    [] v = "v2" -> CastDate(ts)
    [] OTHER -> CastDate(Coalesce(ts, Now))

\* the values Request.create is given for the four required paths
CreateFields(v, fields) ==
  [i \in 1..4 |-> IF v = "v4" THEN Trim(fields[i]) ELSE fields[i]]

\* validation, Request.create and the issue of the webhook call
SubmitCreate(s, fields) ==
  /\ Free(s)
  /\ Dispatch(ver, "POST", "") = "submit"
  /\ LET r == [Req0 EXCEPT !.op = "submit", !.h = "submit", !.fields = fields]
         cf == CreateFields(ver, fields)
     IN IF \E i \in 1..4 : ~Truthy(fields[i])
        THEN /\ Done(s, [r EXCEPT !.resp = Resp(400, "missing_fields", Undef, Undef)])
             /\ UNCHANGED store
        ELSE IF \E i \in 1..4 : ~RequiredOk(cf[i])
        THEN /\ Done(s, [r EXCEPT !.resp = Resp(500, "server", Undef, Undef)])
             /\ UNCHANGED store
        ELSE /\ Len(store) < MaxRecords
             /\ LET id == Len(store) + 1
                    doc == [NewDoc(cf) EXCEPT
                              !.request_timestamp = StoredTimestamp(ver, fields[5])]
                IN /\ store' = Append(store, doc)
                   /\ Goes(s, Post([r EXCEPT !.id = id], BuildFlowPayload(ver, id, doc)))
  /\ UNCHANGED ver

\* what Submit (and Forward) write to the record once the webhook call has settled
WebhookUpdate(v, o) ==
  CASE v = "v1" -> IF o # "fail" /\ Truthy(ExtractMessageIdV1(o))
                   THEN [messageId |-> ExtractMessageIdV1(o)]
                   ELSE [none |-> Undef]
    [] v = "v2" -> IF o # "fail" THEN [messageId |-> DataToString(o)]
                   ELSE [none |-> Undef]
    [] v = "v3" -> IF o # "fail"
                   THEN [messageId |-> ActivityId(o),
                         conversationId |-> ConversationId(o),
                         status |-> "forwarded"]
                   ELSE [none |-> Undef]
    [] v = "v4" -> IF o # "fail"
                   THEN [messageId |-> ActivityId(o),
                         conversationId |-> ConversationId(o)]
                   ELSE [lastError |-> "timeout of 15000ms exceeded"]

\* whether a rejected webhook call reaches the handler's outer catch (500)
SubmitUnwinds(v) == v \in {"v1", "v2", "v3"}

\* a variant of SubmitWebhook for a call without a timeout to a server that
\* never answers: the call does not settle
SubmitWebhookHangs(s, o) ==
  /\ reqs[s].pc = "posting" /\ reqs[s].h = "submit"
  /\ UNCHANGED vars

\* the webhook call settles; its result is written to the record
SubmitWebhook(s, o) ==
  /\ reqs[s].pc = "posting" /\ reqs[s].h = "submit"
  /\ LET r == [reqs[s] EXCEPT !.outcome = o]
         id == r.id
     IN IF o = "fail" /\ SubmitUnwinds(ver)
        THEN /\ Done(s, [r EXCEPT !.resp = Resp(500, "server", Undef, Undef)])
             /\ UNCHANGED store
        ELSE /\ store' = [store EXCEPT ![id] = SetPaths(ver, @, WebhookUpdate(ver, o))]
             /\ IF ver \in {"v1", "v2"}
                THEN Done(s, [r EXCEPT !.resp = Resp(201, "", "pending", Undef)])
                ELSE Goes(s, [r EXCEPT !.pc = "reading"])
  /\ UNCHANGED ver

\* Request.findOne(...).lean() and the 201 answer (v3, v4)
SubmitRead(s) ==
  /\ reqs[s].pc = "reading" /\ reqs[s].h = "submit"
  /\ Done(s, [reqs[s] EXCEPT !.resp =
                Resp(201, "", store[reqs[s].id].status, Undef)])
  /\ UNCHANGED <<ver, store>>

(* ----------------- POST /:uuid/:status  (v1, v2) ---------------------- *)
\* status === "approve" ? "approved" : status === "decline" ? "declined" : status
Normalize(status) ==
  IF status = "approve" THEN "approved"
  ELSE IF status = "decline" THEN "declined"
  ELSE status

\* the actor a read-then-save decision assigns to doc.actor_name
SaveActor(v, given, doc) ==
  IF v = "v1" THEN Coalesce(given, Coalesce(doc.actor_name, Null))
  ELSE Or(given, Or(doc.actor_name, Null))

\* the check between findOne and save: may the decision go on?
StillPending(doc) == doc.status = "pending"

\* what a request for POST /<id>/<seg> carries as its status token
PathStatus(op, token) == IF op = "callback" THEN "teams-approval" ELSE token

\* Request.findOne, the pending check and the assignments to the document
DecideFind(s, op, id, token, given) ==
  /\ Free(s)
  /\ op \in {"direct", "callback"}
  /\ Dispatch(ver, "POST", PathStatus(op, token)) = "decideSave"
  /\ LET r == [Req0 EXCEPT !.op = op, !.h = "decideSave", !.id = id,
                           !.token = token, !.given = given, !.since = Len(wins[id])]
     IN IF ~Known(id)
        THEN Done(s, [r EXCEPT !.resp = Resp(404, "not_found", Undef, Undef)])
        ELSE IF ~StillPending(store[id])
        THEN Done(s, [r EXCEPT !.resp = Resp(409, "already", store[id].status, Undef)])
        ELSE Goes(s, [r EXCEPT !.pc = "found",
                         !.tok = Normalize(PathStatus(op, token)),
                         !.actor = SaveActor(ver, given, store[id])])
  /\ UNCHANGED <<ver, store>>

\* doc.save(): validates the document, then writes its modified paths
DecideSave(s) ==
  /\ reqs[s].pc = "found" /\ reqs[s].h = "decideSave"
  /\ LET r == reqs[s]
     IN IF StatusEnum(ver) # {} /\ r.tok \notin StatusEnum(ver)
        THEN /\ Done(s, [r EXCEPT !.resp = Resp(500, "server", Undef, Undef)])
             /\ UNCHANGED store
        ELSE /\ store' = [store EXCEPT ![r.id].status = r.tok,
                                       ![r.id].actor_name = r.actor]
             /\ Done(s, [r EXCEPT !.resp = Resp(200, "", r.tok, r.actor)])
  /\ UNCHANGED ver

(* -------------------- POST /:uuid/:status  (v3) ----------------------- *)
\* the filter of the decision's updateOne: which stored documents it matches
CasFilter(doc) == doc.status = "pending"

\* req.body.actor_name?.trim() || "API User"
ApiActor(given) == Or(OptTrim(given), "API User")

\* validation of the token and the conditional updateOne
DecideCas(s, op, id, token, given) ==
  /\ Free(s)
  /\ op \in {"direct", "callback", "forward"}
  /\ Dispatch(ver, "POST", IF op = "forward" THEN "forward"
                           ELSE PathStatus(op, token)) = "decideCas"
  /\ LET status == IF op = "forward" THEN "forward" ELSE PathStatus(op, token)
         normalized == Normalize(status)
         r == [Req0 EXCEPT !.op = op, !.h = "decideCas", !.id = id,
                           !.token = token, !.given = given, !.tok = normalized,
                           !.actor = ApiActor(given), !.since = Len(wins[id])]
     IN IF normalized \notin {"approved", "declined"}
        THEN /\ Done(s, [r EXCEPT !.resp = Resp(400, "invalid_status", Undef, Undef)])
             /\ UNCHANGED store
        ELSE IF Known(id) /\ CasFilter(store[id])
        THEN /\ store' = [store EXCEPT ![id] =
                  SetPaths(ver, @, [status |-> normalized, actor_name |-> r.actor])]
             /\ Goes(s, [r EXCEPT !.pc = "reading"])
        ELSE /\ Done(s, [r EXCEPT !.resp =
                  Resp(404, "not_found_or_processed", Undef, Undef)])
             /\ UNCHANGED store
  /\ UNCHANGED ver

\* Request.findOne(...).lean() and the 200 answer
DecideRead(s) ==
  /\ reqs[s].pc = "reading" /\ reqs[s].h \in {"decideCas", "teamsUpdate"}
  /\ LET d == store[reqs[s].id]
     IN Done(s, [reqs[s] EXCEPT !.resp = Resp(200, "", d.status, d.actor_name)])
  /\ UNCHANGED <<ver, store>>

(* ------------------ POST /:uuid/teams-approval  (v4) ------------------ *)
\* (typeof status === "string" ? status : "").toLowerCase().trim()
TeamsNormalize(status) ==
  Trim(ToLowerCase(IF IsString(status) THEN status ELSE ""))

\* (actor_name ? String(actor_name) : "Teams User").trim()
TeamsActor(given) == Trim(IF Truthy(given) THEN given ELSE "Teams User")

\* the filter of the callback's updateOne: which stored documents it matches
TeamsFilter(doc) == TRUE

\* validation of body.status and the updateOne
TeamsUpdate(s, id, token, given) ==
  /\ Free(s)
  /\ Dispatch(ver, "POST", "teams-approval") = "teamsUpdate"
  /\ LET normalized == TeamsNormalize(token)
         r == [Req0 EXCEPT !.op = "callback", !.h = "teamsUpdate", !.id = id,
                           !.token = token, !.given = given, !.tok = normalized,
                           !.actor = TeamsActor(given), !.since = Len(wins[id])]
     IN IF normalized \notin {"approved", "declined"}
        THEN /\ Done(s, [r EXCEPT !.resp = Resp(400, "invalid_status", Undef, Undef)])
             /\ UNCHANGED store
        ELSE IF Known(id) /\ TeamsFilter(store[id])
        THEN /\ store' = [store EXCEPT ![id] =
                  SetPaths(ver, @, [status |-> normalized, actor_name |-> r.actor])]
             /\ Goes(s, [r EXCEPT !.pc = "reading"])
        ELSE /\ Done(s, [r EXCEPT !.resp = Resp(404, "not_found", Undef, Undef)])
             /\ UNCHANGED store
  /\ UNCHANGED ver

(* ---------------------- GET /:uuid/status  (v3, v4) ------------------- *)
\* a variant of GetStatus that answers for an id that is not in the store
\* with a record it makes up
GetStatusPartial(s, id) ==
  /\ Free(s)
  /\ Dispatch(ver, "GET", "status") = "getStatus"
  /\ LET r == [Req0 EXCEPT !.op = "get", !.h = "getStatus", !.id = id]
     IN IF ~Known(id)
        THEN Done(s, [r EXCEPT !.resp = Resp(200, "", "pending", Null)])
        ELSE Done(s, [r EXCEPT !.resp =
               [Resp(200, "", store[id].status, Or(store[id].actor_name, Null))
                  EXCEPT !.mid = Or(store[id].messageId, Null)]])
  /\ UNCHANGED <<ver, store>>

GetStatus(s, id) ==
  /\ Free(s)
  /\ Dispatch(ver, "GET", "status") = "getStatus"
  /\ LET r == [Req0 EXCEPT !.op = "get", !.h = "getStatus", !.id = id]
     IN IF ~Known(id)
        THEN Done(s, [r EXCEPT !.resp = Resp(404, "not_found", Undef, Undef)])
        ELSE Done(s, [r EXCEPT !.resp =
               [Resp(200, "", store[id].status, Or(store[id].actor_name, Null))
                  EXCEPT !.mid = Or(store[id].messageId, Null)]])
  /\ UNCHANGED <<ver, store>>

(* -------------------- POST /:uuid/forward  (v1, v2) ------------------- *)
\* a variant of ForwardFind that makes the webhook call before it looks
\* the record up
ForwardFindBlind(s, id) ==
  /\ Free(s)
  /\ Dispatch(ver, "POST", "forward") = "forward"
  /\ LET r == [Req0 EXCEPT !.op = "forward", !.h = "forward", !.id = id,
                           !.since = Len(wins[id])]
     IN IF ~Known(id)
        THEN Done(s, [r EXCEPT !.calls = 1,
                               !.resp = Resp(404, "not_found", Undef, Undef)])
        ELSE Goes(s, Post(r, BuildFlowPayload(ver, id, store[id])))
  /\ UNCHANGED <<ver, store>>

\* Request.findOne and the issue of the webhook call
ForwardFind(s, id) ==
  /\ Free(s)
  /\ Dispatch(ver, "POST", "forward") = "forward"
  /\ LET r == [Req0 EXCEPT !.op = "forward", !.h = "forward", !.id = id,
                           !.since = Len(wins[id])]
     IN IF ~Known(id)
        THEN Done(s, [r EXCEPT !.resp = Resp(404, "not_found", Undef, Undef)])
        ELSE Goes(s, Post(r, BuildFlowPayload(ver, id, store[id])))
  /\ UNCHANGED <<ver, store>>

\* a variant of ForwardWebhook whose save writes the whole document, status
\* and actor_name at their defaults included
ForwardWebhookWhole(s, o) ==
  /\ reqs[s].pc = "posting" /\ reqs[s].h = "forward"
  /\ LET r == [reqs[s] EXCEPT !.outcome = o]
     IN IF o = "fail"
        THEN /\ Done(s, [r EXCEPT !.resp = Resp(500, "server", Undef, Undef)])
             /\ UNCHANGED store
        ELSE /\ store' = [store EXCEPT ![r.id] =
                  [SetPaths(ver, @, WebhookUpdate(ver, o))
                     EXCEPT !.status = "pending", !.actor_name = Undef]]
             /\ Done(s, [r EXCEPT !.resp = Resp(200, "", Undef, Undef)])
  /\ UNCHANGED ver

\* the webhook call settles; doc.messageId is assigned and saved
ForwardWebhook(s, o) ==
  /\ reqs[s].pc = "posting" /\ reqs[s].h = "forward"
  /\ LET r == [reqs[s] EXCEPT !.outcome = o]
     IN IF o = "fail"
        THEN /\ Done(s, [r EXCEPT !.resp = Resp(500, "server", Undef, Undef)])
             /\ UNCHANGED store
        ELSE /\ store' = [store EXCEPT ![r.id] = SetPaths(ver, @, WebhookUpdate(ver, o))]
             /\ Done(s, [r EXCEPT !.resp = Resp(200, "", Undef, Undef)])
  /\ UNCHANGED ver

(* --------------------------- store failures --------------------------- *)
\* the path segment and the method of a well-formed request for an operation
SegOf(op) ==
  CASE op = "submit" -> ""
    [] op = "direct" -> "approved"
    [] op = "callback" -> "teams-approval"
    [] op = "forward" -> "forward"
    [] op = "get" -> "status"
MethodOf(op) == IF op = "get" THEN "GET" ELSE "POST"

\* whether the handler h makes a call to the store for a well-formed request
\* of operation op (decideCas validates the path segment first)
ReachesStore(h, op) ==
  h # "none" /\ (h = "decideCas" => Normalize(SegOf(op)) \in {"approved", "declined"})

\* the first call a handler makes to the store (Request.create, findOne,
\* updateOne) is rejected: the handler's catch answers 500
FirstCallRejects(s, op, id) ==
  /\ Free(s)
  /\ op = "submit" => id = 1
  /\ LET h == Dispatch(ver, MethodOf(op), SegOf(op))
         r == [Req0 EXCEPT !.op = op, !.h = h, !.id = IF op = "submit" THEN 0 ELSE id,
                           !.fields = IF op = "submit" THEN AllGood ELSE << >>,
                           !.token = IF op \in {"direct", "callback"}
                                     THEN "approved" ELSE Undef,
                           !.failed = TRUE]
     IN /\ ReachesStore(h, op)
        /\ Done(s, [r EXCEPT !.resp = Resp(500, "server", Undef, Undef)])
  /\ UNCHANGED <<ver, store>>

\* the call a handler waits for after its first (doc.save of a decision, the
\* findOne before the answer) is rejected: the handler's catch answers 500
AwaitedCallRejects(s) ==
  /\ reqs[s].pc \in {"found", "reading"}
  /\ Done(s, [reqs[s] EXCEPT !.failed = TRUE,
                             !.resp = Resp(500, "server", Undef, Undef)])
  /\ UNCHANGED <<ver, store>>

\* whether an update sends anything to the store: it sets a path of the schema
Writes(v, upd) == \E p \in DOMAIN upd : p \in SchemaPaths(v) /\ upd[p] # Undef

\* the write that follows a webhook call (doc.save, updateOne) is rejected.
\* In v4's Submit the write is inside the try around the call: the catch logs
\* the error and the handler goes on to its answer; elsewhere the handler's
\* catch answers 500.
WebhookWriteRejects(s, o) ==
  /\ reqs[s].pc = "posting" /\ reqs[s].h \in {"submit", "forward"}
  /\ o # "fail" /\ Writes(ver, WebhookUpdate(ver, o))
  /\ LET r == [reqs[s] EXCEPT !.outcome = o, !.failed = TRUE]
     IN IF ver = "v4" /\ r.h = "submit"
        THEN Goes(s, [r EXCEPT !.pc = "reading"])
        ELSE Done(s, [r EXCEPT !.resp = Resp(500, "server", Undef, Undef)])
  /\ UNCHANGED <<ver, store>>

(* ------------------------- no matching route -------------------------- *)
\* express's final handler: 404 when no registered route matches
NoRoute(s, op, id) ==
  /\ Free(s)
  /\ \/ op = "get" /\ Dispatch(ver, "GET", "status") = "none"
     \/ op = "forward" /\ Dispatch(ver, "POST", "forward") = "none"
     \/ op = "direct" /\ Dispatch(ver, "POST", "approve") = "none"
  /\ Done(s, [Req0 EXCEPT !.op = op, !.id = id,
                          !.resp = Resp(404, "no_route", Undef, Undef)])
  /\ UNCHANGED <<ver, store>>

Next ==
  \/ \E s \in Slots, f \in SubmitInputs : SubmitCreate(s, f)
  \/ \E s \in Slots, o \in Outcomes : SubmitWebhook(s, o)
  \/ \E s \in Slots : SubmitRead(s)
  \/ \E s \in Slots, id \in Ids, i \in DirectInputs :
       DecideFind(s, "direct", id, i[1], i[2])
  \/ \E s \in Slots, id \in Ids, i \in CallbackInputs :
       DecideFind(s, "callback", id, i[1], i[2])
  \/ \E s \in Slots : DecideSave(s)
  \/ \E s \in Slots, id \in Ids, i \in DirectInputs :
       DecideCas(s, "direct", id, i[1], i[2])
  \/ \E s \in Slots, id \in Ids, i \in CallbackInputs :
       DecideCas(s, "callback", id, i[1], i[2])
  \/ \E s \in Slots, id \in Ids : DecideCas(s, "forward", id, Undef, Undef)
  \/ \E s \in Slots : DecideRead(s)
  \/ \E s \in Slots, id \in Ids, i \in CallbackInputs :
       TeamsUpdate(s, id, i[1], i[2])
  \/ \E s \in Slots, id \in Ids : GetStatus(s, id)
  \/ \E s \in Slots, id \in Ids : ForwardFind(s, id)
  \/ \E s \in Slots, o \in Outcomes : ForwardWebhook(s, o)
  \/ \E s \in Slots, op \in {"get", "forward", "direct"}, id \in Ids :
       NoRoute(s, op, id)
  \/ \E s \in Slots, op \in {"submit", "direct", "callback", "forward", "get"},
          id \in Ids : FirstCallRejects(s, op, id)
  \/ \E s \in Slots : AwaitedCallRejects(s)
  \/ \E s \in Slots, o \in Outcomes : WebhookWriteRejects(s, o)

Spec == Init /\ [][Next]_vars

\* The webhook call is bounded by its timeout (timeout: 15000), so it settles,
\* and the store answers the reads and writes of a handler that waits for it.
Fairness ==
  \A s \in Slots :
    /\ WF_vars(\E o \in Outcomes : SubmitWebhook(s, o))
    /\ WF_vars(SubmitRead(s))
LiveSpec == Spec /\ Fairness

(* ------------------- the extraction of the message id ----------------- *)
\* the paths of an object body the revisions look at, and the responses the
\* extraction is applied to: every set of these paths (the value at a path is
\* named after the path), string bodies, no body, with and without the header
TopKeys == {"id", "messageId", "activityId"}
NestedKeys == {"message.id", "outputs.messageId", "outputs.message.id", "outputs.body.id"}
Responses ==
  {[body |-> "object", text |-> "", data |-> [k \in K |-> k], header |-> h] :
      K \in SUBSET (TopKeys \cup NestedKeys), h \in {Undef, "hdr"}}
  \cup {[body |-> "string", text |-> tx, data |-> NoData, header |-> h] :
      tx \in {"", "accepted", UrlBody}, h \in {Undef, "hdr"}}
  \cup {[body |-> "none", text |-> "", data |-> NoData, header |-> h] :
      h \in {Undef, "hdr"}}

\* the message id a revision takes from a response: extractMessageId (v1, and
\* the function src/index.js declares), resp.data?.activityId?.toString() (v3, v4)
MessageIdOf(v, x) ==
  IF v \in {"v1", "v2"} THEN ExtractMessageId(v, x) ELSE Get(x, "activityId")

ExtractInit ==
  /\ ver \in Versions
  /\ store = << >>
  /\ reqs = [s \in Slots |-> Idle]
  /\ last = Req0
  /\ wins = [id \in Ids |-> << >>]
  /\ flowResp \in Responses
  /\ extracted = NotYet

\* const messageId = extractMessageId(resp)
Extract ==
  /\ extracted = NotYet
  /\ extracted' = MessageIdOf(ver, flowResp)
  /\ UNCHANGED <<ver, store, reqs, last, wins, flowResp>>

ExtractSpec == ExtractInit /\ [][Extract]_vars

(* ====================================================================== *)
(*                               properties                               *)
(* ====================================================================== *)
\* the status tokens Decide is specified to accept, and the terminal statuses
ValidTokens == {"approve", "approved", "decline", "declined"}
Terminal == {"approved", "declined"}
DecideOps == {"direct", "callback"}
\* a token counts as one of the four also when written with capitals or padding
IsValidToken(t) == IsString(t) /\ Trim(ToLowerCase(t)) \in ValidTokens
\* a required field that is present and not empty once trimmed
IsFilled(x) == IsString(x) /\ Trim(x) # ""

\* slot s receives a request in this step / answers its request in this step
Arrives(s) == reqs[s].pc = "idle" /\ reqs'[s].pc # "idle"
Answers(s) == reqs[s].pc # "done" /\ reqs'[s].pc = "done"
\* the request of slot s after the step, answered or not
After(s) == IF reqs'[s].pc = "done" THEN last' ELSE reqs'[s]
\* a decision that reached the handler registered for its own channel
Served(r) ==
  \/ r.op = "direct" /\ r.h \in {"decideSave", "decideCas"}
  \/ r.op = "callback" /\ r.h = "teamsUpdate"

\* C1: of two decisions racing on a pending record (each arrived before any
\* decision on that record was answered), exactly one is answered with success.
C1_ExactlyOneRacingDecisionWins ==
  (Served(last) /\ last.since = 0 /\ last.resp.code = 200)
    => ~(\E a, b \in {"Bob", "Carol"} : a # b /\ wins[last.id] = <<a, b>>)

\* C2: once a record's status is approved or declined, no step changes it.
C2_StatusWriteOnce ==
  [][\A id \in DOMAIN store :
       store[id].status \in Terminal => store'[id].status = store[id].status]_vars

\* C3: every stored status is pending, approved, declined or forwarded.
C3_StatusInEnum ==
  \A id \in DOMAIN store :
    store[id].status \in {"pending", "approved", "declined", "forwarded"}

\* C4: a Decide whose token is outside {approve, approved, decline, declined}
\* is answered InvalidStatus, and no step of its handler changes a record.
C4_InvalidTokenRejected ==
  [][\A s \in Slots :
       (reqs'[s] # reqs[s]
          /\ Served(After(s)) /\ Known(After(s).id)
          /\ ~IsValidToken(After(s).token))
       => /\ store' = store
          /\ Answers(s) => last'.resp.err = "invalid_status"]_vars

\* C5: a Decide that arrives for a record with a terminal status is answered
\* Conflict with the current status, and leaves the record as it is.
C5_DecidedRecordConflicts ==
  [][\A s \in Slots :
       (Arrives(s) /\ Served(After(s)) /\ ~After(s).failed /\ Known(After(s).id)
          /\ After(s).token \in ValidTokens
          /\ store[After(s).id].status \in Terminal)
       => /\ Answers(s)
          /\ last'.resp.code = 409
          /\ last'.resp.status = store[last'.id].status
          /\ store' = store]_vars

\* C6: a Decide with a valid token for an id that is not in the store is
\* answered NotFound through either channel, and the store is unchanged.
C6_UnknownIdNotFound ==
  [][\A s \in Slots :
       (Arrives(s) /\ After(s).op \in DecideOps /\ After(s).h # "none"
          /\ ~After(s).failed
          /\ ~Known(After(s).id) /\ After(s).token \in ValidTokens)
       => /\ Answers(s)
          /\ last'.resp.code = 404
          /\ store' = store]_vars

\* C7: a record has an actor (present, not null) exactly when its status is
\* approved or declined.
C7_ActorIffDecided ==
  \A id \in DOMAIN store :
    IsString(store[id].actor_name) <=> store[id].status \in Terminal

\* C8: a valid submission creates a record whose status is pending, and a
\* webhook call that fails or times out leaves the record and its status be.
C8_SubmittedRecordStartsPending ==
  [][\A s \in Slots :
       /\ (Arrives(s) /\ After(s).op = "submit" /\ ~After(s).failed
             /\ \A i \in 1..4 : IsFilled(After(s).fields[i]))
          => /\ Len(store') = Len(store) + 1
             /\ store'[Len(store')].status = "pending"
             /\ After(s).id = Len(store')
       /\ (reqs[s].pc = "posting" /\ reqs[s].h = "submit"
             /\ reqs'[s].pc # "posting" /\ After(s).outcome = "fail")
          => /\ Len(store') = Len(store)
             /\ store'[reqs[s].id].status = store[reqs[s].id].status]_vars

\* C8 witness: a submission whose webhook call failed has been answered and
\* its record is in the store with status pending.
C8_Witness ==
  /\ last.op = "submit" /\ last.outcome = "fail"
  /\ Known(last.id) /\ store[last.id].status = "pending"

\* C9: a submission with a required field missing, empty or empty once trimmed
\* is answered 400 before any record is created or webhook call is made.
C9_InvalidSubmissionRejected ==
  [][\A s \in Slots :
       (Arrives(s) /\ After(s).op = "submit"
          /\ \E i \in 1..4 : ~IsFilled(After(s).fields[i]))
       => /\ Answers(s)
          /\ last'.resp.code = 400
          /\ last'.calls = 0
          /\ store' = store]_vars

\* C10: when the webhook call of a submission has failed, the record is in the
\* store and carries the failure as lastError.
C10_ForwardFailureRecorded ==
  (last.op = "submit" /\ last.outcome = "fail")
    => (Known(last.id) /\ IsString(store[last.id].lastError))

(* ------------------------------ C11 .. C20 ---------------------------- *)
\* no webhook call for record id is in flight
Settled(id) == \A r \in Slots : reqs[r].pc = "posting" => reqs[r].id # id
\* the terminal status a valid token stands for
Canon(t) == IF t \in {"approve", "approved"} THEN "approved" ELSE "declined"

\* C11: a Decide with a valid token that arrives for an undecided record whose
\* webhook call has settled without leaving a message id (it failed, or it
\* returned no identifier) is not turned away, and when it is answered it is
\* answered with success.
C11_ForwardFailureNeverBlocks ==
  [][\A s \in Slots :
       /\ (Arrives(s) /\ Served(After(s)) /\ ~After(s).failed /\ Known(After(s).id)
             /\ After(s).token \in ValidTokens
             /\ store[After(s).id].status \notin Terminal
             /\ ~Truthy(store[After(s).id].messageId)
             /\ Settled(After(s).id))
          => ~Answers(s)
       /\ (~Arrives(s) /\ Answers(s) /\ Served(last') /\ ~last'.failed
             /\ last'.token \in ValidTokens)
          => last'.resp.code = 200]_vars

\* C12: a Decide with a valid token that arrives for a record whose status is
\* forwarded is not turned away, through the direct call or the callback.
C12_DecideFromForwarded ==
  [][\A s \in Slots :
       (Arrives(s) /\ After(s).op \in DecideOps /\ After(s).h # "none"
          /\ Known(After(s).id) /\ After(s).token \in ValidTokens
          /\ store[After(s).id].status = "forwarded")
       => ~Answers(s)]_vars

\* a Decide request for id arrives at slot s: through the path, through the callback
DirectArrives(s, id, token, given) ==
  \/ DecideFind(s, "direct", id, token, given)
  \/ DecideCas(s, "direct", id, token, given)
  \/ NoRoute(s, "direct", id)
CallbackArrives(s, id, token, given) ==
  \/ DecideFind(s, "callback", id, token, given)
  \/ DecideCas(s, "callback", id, token, given)
  \/ TeamsUpdate(s, id, token, given)
\* the request of slot s is turned away on arrival with HTTP code c
TurnedAway(s, c) == reqs'[s].pc = "done" /\ last'.resp.code = c
\* the <<status token, actor>> pairs sent through both channels
DecideInputs == {i \in DirectInputs \cup CallbackInputs : IsString(i[1])}

\* C13: in every state, the same Decide (id, token, actor) sent through the path
\* and through the callback is turned away with the same error or by neither,
\* and leaves the same stored status.
C13_ChannelsAgree ==
  \A s \in Slots, id \in Ids, i \in DecideInputs :
    (reqs[s].pc = "idle" /\ Free(s)) =>
      /\ \A c \in {400, 404, 409} :
           (ENABLED (DirectArrives(s, id, i[1], i[2]) /\ TurnedAway(s, c)))
             <=> (ENABLED (CallbackArrives(s, id, i[1], i[2]) /\ TurnedAway(s, c)))
      /\ \A st \in {"pending", "forwarded", "approved", "declined"} :
           (ENABLED (DirectArrives(s, id, i[1], i[2])
                       /\ Known(id) /\ store'[id].status = st))
             <=> (ENABLED (CallbackArrives(s, id, i[1], i[2])
                             /\ Known(id) /\ store'[id].status = st))

\* C14: a Decide with one of the four tokens that arrives for a pending record,
\* through either channel, is not turned away, and a status its handler stores
\* is the terminal value the token stands for.
C14_TokensNormalized ==
  [][\A s \in Slots :
       /\ (Arrives(s) /\ Served(After(s)) /\ ~After(s).failed /\ Known(After(s).id)
             /\ After(s).token \in ValidTokens
             /\ store[After(s).id].status = "pending")
          => ~Answers(s)
       /\ (reqs'[s] # reqs[s] /\ Served(After(s)) /\ Known(After(s).id)
             /\ After(s).token \in ValidTokens
             /\ store'[After(s).id].status # store[After(s).id].status)
          => store'[After(s).id].status = Canon(After(s).token)]_vars

\* the value an answer carries for a stored path: the value, or null when the
\* path is not set (or is empty)
Shown(x) == IF Truthy(x) THEN x ELSE Null

\* C15: GetStatus answers at once and leaves the store unchanged; for an id
\* that is not in the store it answers 404 with no status, actor or message id,
\* and for a known id it answers 200 with the stored status, actor and message
\* id (null for one that is absent).
C15_GetStatusReadOnly ==
  [][\A s \in Slots :
       (Arrives(s) /\ After(s).h = "getStatus" /\ ~After(s).failed)
       => /\ Answers(s)
          /\ store' = store
          /\ IF Known(last'.id)
             THEN /\ last'.resp.code = 200
                  /\ last'.resp.status = store[last'.id].status
                  /\ last'.resp.actor = Shown(store[last'.id].actor_name)
                  /\ last'.resp.mid = Shown(store[last'.id].messageId)
             ELSE /\ last'.resp.code = 404
                  /\ last'.resp.status = Undef
                  /\ last'.resp.actor = Undef
                  /\ last'.resp.mid = Undef]_vars

\* C15 witness: GetStatus has answered for a decided record that has a
\* message id, and for an unknown id.
C15_Witness ==
  /\ last.h = "getStatus" /\ Known(last.id) /\ last.resp.code = 200
  /\ last.resp.status \in Terminal /\ IsString(last.resp.actor)
  /\ IsString(last.resp.mid)

C15_WitnessUnknown ==
  last.h = "getStatus" /\ ~Known(last.id) /\ last.resp.code = 404

ActorKeys == {"actor_name", "actorName", "lastError"}
TimestampKeys == {"requested_at", "request_timestamp", "timestamp"}
IsNormalized(x) == x \in {"2024-05-01T09:30:00.000Z", "2024-06-01T12:00:00.000Z"}

\* C17: whenever a webhook call is issued, its payload has no actor and no
\* lastError, it has a timestamp in normalized form (also when the submission
\* carried no requested-at value), and building it changed no stored record.
C17_PayloadContents ==
  [][\A s \in Slots :
       (reqs[s].pc # "posting" /\ reqs'[s].pc = "posting")
       => LET p == reqs'[s].payload
          IN /\ DOMAIN p \cap ActorKeys = {}
             /\ \E k \in DOMAIN p \cap TimestampKeys : IsNormalized(p[k])
             /\ \A id \in DOMAIN store : store'[id] = store[id]]_vars

\* C18: whenever a Decide writes to a record, the actor the record then has is a
\* non-empty string: the name that was supplied when one was supplied, a
\* placeholder otherwise.
C18_ActorRecorded ==
  [][\A s \in Slots :
       (reqs'[s] # reqs[s] /\ Served(After(s)) /\ Known(After(s).id)
          /\ store'[After(s).id] # store[After(s).id])
       => LET a == store'[After(s).id].actor_name
          IN /\ Truthy(a)
             /\ IsFilled(After(s).given)
                  => a \in {After(s).given, Trim(After(s).given)}]_vars

\* C19: a webhook call is issued only by a Submit or a Forward-again, when the
\* request arrives; it is the only call of that request, also once it has
\* settled, whatever its outcome.
C19_NoAutomaticRetry ==
  [][\A s \in Slots :
       /\ (reqs[s].pc # "posting" /\ reqs'[s].pc = "posting")
          => /\ Arrives(s)
             /\ reqs'[s].op \in {"submit", "forward"}
             /\ reqs'[s].calls = 1
       /\ (reqs[s].pc = "posting" /\ reqs'[s] # reqs[s])
          => /\ reqs'[s].pc # "posting"
             /\ After(s).calls = 1
       /\ Answers(s) => last'.calls <= 1]_vars

\* C19 witness: a Forward-again whose call failed has been answered, having
\* made that one call.
C19_Witness ==
  /\ last.op = "forward" /\ last.h = "forward"
  /\ last.outcome = "fail" /\ last.calls = 1

\* C20: every Submit that waits for its webhook call or for the store is
\* eventually answered.
C20_SubmitCompletes ==
  \A s \in Slots :
    (reqs[s].pc \in {"posting", "reading"} /\ reqs[s].h = "submit")
      ~> (reqs[s].pc = "done")

\* C20 witness: a Submit whose webhook call failed has been answered, with a
\* server error or with a degraded success.
C20_Witness ==
  /\ last.op = "submit" /\ last.outcome = "fail"
  /\ last.resp.code \in {500, 201}
  /\ \E s \in Slots : reqs[s].pc = "done"

\* C21: a request for which a call to the store was rejected is answered
\* with a server-side error, never with a success.
C21_StoreFailureAnswered ==
  (last.pc = "done" /\ last.failed) => last.resp.code = 500

\* the ids the extraction rule allows for a response: those of the strategy
\* of highest priority that matches (top-level field, nested envelope, header,
\* segment of a string body), or none
Allowed(x) ==
  LET tops == {x.data[k] : k \in {j \in TopKeys : Truthy(Get(x, j))}}
      nests == {x.data[k] : k \in {j \in NestedKeys : Truthy(Get(x, j))}}
  IN IF tops # {} THEN tops
     ELSE IF nests # {} THEN nests
     ELSE IF Truthy(x.header) THEN {x.header}
     ELSE IF x.body = "string" /\ Truthy(Match(x.text)) THEN {Match(x.text)}
     ELSE {Null, Undef}

\* C22: the id taken from a response is the id of the matching strategy of
\* highest priority: a top-level id, message id or activity id before a
\* nested one, that before the header, that before the segment of a string
\* body; and it is absent when no strategy matches.
C22_ExtractionPriority ==
  extracted # NotYet => extracted \in Allowed(flowResp)

\* a 2xx response in which the extraction rule finds no id
HasNoId(o) == o # "fail" /\ Allowed(Response(o)) = {Null, Undef}
\* slot s waits for its webhook call, which settles in this step
Settles(s) == reqs[s].pc = "posting" /\ reqs'[s] # reqs[s]

\* C23: a record is created without a message id and has none until a webhook
\* call for it succeeds: a call that fails leaves the record without one, and
\* so does a call that succeeds with a response that carries no id, which is
\* not answered as an error either.
C23_MessageIdOnlyFromSuccess ==
  [][/\ Len(store') > Len(store) => ~Truthy(store'[Len(store')].messageId)
     /\ \A id \in 1..Len(store) :
          (~Truthy(store[id].messageId) /\ Truthy(store'[id].messageId))
            => \E s \in Slots : Settles(s) /\ reqs[s].id = id
     /\ \A s \in Slots :
          (Settles(s) /\ ~Truthy(store[reqs[s].id].messageId) /\ ~After(s).failed
             /\ (After(s).outcome = "fail" \/ HasNoId(After(s).outcome)))
            => /\ ~Truthy(store'[reqs[s].id].messageId)
               /\ (Answers(s) /\ After(s).outcome # "fail")
                    => last'.resp.code \in {200, 201}]_vars

\* C24: a record keeps its id (its place in the store) and its four required
\* fields from its creation on, whatever operations follow.
C24_IdentityImmutable ==
  [][/\ Len(store') >= Len(store)
     /\ \A id \in 1..Len(store) : store'[id].fields = store[id].fields]_vars

\* C24 witness: a record that has been given a message id and has then been
\* decided still has the fields it was submitted with.
C24_Witness ==
  /\ last.op \in DecideOps /\ last.resp.code = 200 /\ Known(last.id)
  /\ Truthy(store[last.id].messageId)
  /\ store[last.id].status \in Terminal
  /\ store[last.id].fields = <<"Alice Lee", "Finance", "Access", "Quarterly audit">>

\* C25: what Submit writes once its webhook call has settled leaves a decision
\* alone: a record that was decided while the call was in flight keeps the
\* terminal status and the actor of that decision until Submit has answered.
C25_SubmitKeepsDecision ==
  [][\A s \in Slots :
       (reqs[s].pc \in {"posting", "reading"} /\ reqs[s].h = "submit"
          /\ reqs'[s] # reqs[s] /\ store[reqs[s].id].status \in Terminal)
       => /\ store'[reqs[s].id].status = store[reqs[s].id].status
          /\ store'[reqs[s].id].actor_name = store[reqs[s].id].actor_name]_vars

\* C26: a callback (POST /:uuid/teams-approval) is given to the handler that is
\* registered for that path, never to the handler of POST /:uuid/:status with
\* "teams-approval" as its status token; no record gets that token as status.
C26_CallbackReachesItsHandler ==
  [][/\ \A s \in Slots :
          (Arrives(s) /\ After(s).op = "callback")
            => After(s).h \in {"teamsSave", "teamsUpdate"}
     /\ \A id \in 1..Len(store') : store'[id].status # "teams-approval"]_vars

\* C27: no step of a Forward-again (its lookup, the settling of its webhook
\* call with any outcome, its save) changes the status or the actor of a
\* record, whatever the record's status and also when a decision was saved
\* between the lookup and the save.
C27_ForwardKeepsDecision ==
  [][\A s \in Slots :
       (reqs'[s] # reqs[s] /\ After(s).h = "forward")
       => /\ Len(store') = Len(store)
          /\ \A id \in 1..Len(store) :
               /\ store'[id].status = store[id].status
               /\ store'[id].actor_name = store[id].actor_name]_vars

\* C27 witness: a Forward-again that looked its record up before any decision
\* on it was answered has saved a message id and answered after a decision
\* was saved, and the record has that decision's status and actor.
C27_Witness ==
  /\ last.h = "forward" /\ last.resp.code = 200 /\ last.since = 0
  /\ Len(wins[last.id]) = 1
  /\ store[last.id].status \in Terminal
  /\ store[last.id].actor_name = wins[last.id][1]
  /\ Truthy(store[last.id].messageId)

\* C28: a message id that is stored on a record stays: no step leaves the
\* record without one, and a Forward-again whose webhook call fails, or
\* succeeds with a response that carries no id, leaves the stored one as it is.
C28_MessageIdNeverCleared ==
  [][\A id \in 1..Len(store) :
       Truthy(store[id].messageId)
       => /\ Truthy(store'[id].messageId)
          /\ \A s \in Slots :
               (Settles(s) /\ reqs[s].h = "forward" /\ reqs[s].id = id
                  /\ (After(s).outcome = "fail" \/ HasNoId(After(s).outcome)))
               => store'[id].messageId = store[id].messageId]_vars

\* the request of slot s with the locals of its handler, in a step it takes
Call(s) == IF reqs[s].pc = "idle" THEN After(s) ELSE reqs[s]

\* C29: the status and the actor of a decided record are written together, by
\* one decision: every step that changes either of them on a record that is
\* or becomes decided is taken by a decision on that record and stores that
\* decision's status and actor; and a decision answered with success reports
\* the status and the actor that are stored.
C29_StatusAndActorFromOneDecision ==
  [][/\ \A id \in 1..Len(store) :
          (/\ \/ store'[id].status # store[id].status
              \/ store'[id].actor_name # store[id].actor_name
           /\ \/ store[id].status \in Terminal
              \/ store'[id].status \in Terminal)
          => \E s \in Slots :
               /\ reqs'[s] # reqs[s]
               /\ Call(s).op \in DecideOps /\ Call(s).id = id
               /\ store'[id].status = Call(s).tok
               /\ store'[id].actor_name = Call(s).actor
     /\ \A s \in Slots :
          (Answers(s) /\ last'.op \in DecideOps /\ last'.resp.code = 200)
          => /\ last'.resp.status = store'[last'.id].status
             /\ last'.resp.actor = store'[last'.id].actor_name]_vars

=============================================================================
